---- MODULE Spec2Model ----
(***************************************************************************)
(* KineticVision: the hand-gesture pipeline (VisionService.processVideo /  *)
(* analyzeResult), the App's predict loop, and the Particles frame update. *)
(*                                                                         *)
(* Fixed-point units used throughout:                                      *)
(*   - normalized landmark coordinates: integer c in 0..20 stands for c/20 *)
(*   - hand size and centroid: fortieths (sum of two twentieths)           *)
(*   - expansion, tension, focus: thousandths (1000 = 1.0)                 *)
(*   - rotation: milliradians                                              *)
(*   - frame delta: milliseconds                                           *)
(***************************************************************************)
EXTENDS Integers, Sequences, FiniteSets, TLC

\* ------------------------------------------------------------------ bounds
\* Last video frame index the camera delivers in a run.
MaxTime == 1

\* -------------------------------------------------------- numeric helpers
Abs(a) == IF a < 0 THEN 0 - a ELSE a

Max2(a, b) == IF a > b THEN a ELSE b

Min2(a, b) == IF a < b THEN a ELSE b

\* Math.PI in thousandths.
PiMilli == 3142

\* floor(10 * (dist * 2.5)^1.2) for dist = sqrt(d2)/20, d2 in 0..800.
\* With v = (2.5*dist)^1.2:  v^5 = (6.25*dist^2)^3 = (d2/64)^3, so
\* (10v)^5 = 3125*d2^3/8192; the quotient is split to stay within 32 bits.
PowTenths(d2) ==
    LET n   == d2 * d2 * d2
        rhs == 3125 * (n \div 8192) + (3125 * (n % 8192)) \div 8192
    IN  CHOOSE k \in 0..50 :
            /\ k * k * k * k * k <= rhs
            /\ (k + 1) * (k + 1) * (k + 1) * (k + 1) * (k + 1) > rhs

\* ------------------------------------------------------------ VisionService
\* const TARGET_SIZE = 0.25 (fortieths)
TARGET_SIZE == 10

\* const TOLERANCE = 0.15 (fortieths)
TOLERANCE == 6

\* The neutral control state every early return of processVideo carries.
NeutralState ==
    [expansion |-> 1000, tension |-> 0, focus |-> 500,
     rotation |-> [x |-> 0, y |-> 0]]

\* The nested for-loops over every hand's gesture list (isFist / isOpen flags).
RECURSIVE ScanHandGestures(_, _, _)
ScanHandGestures(handGestures, j, flags) ==
    IF j > Len(handGestures)
    THEN flags
    ELSE ScanHandGestures(handGestures, j + 1,
             [isFist |-> flags.isFist \/ handGestures[j] = "Closed_Fist",
              isOpen |-> flags.isOpen \/ handGestures[j] = "Open_Palm"])

RECURSIVE ScanGestures(_, _, _)
ScanGestures(gestures, h, flags) ==
    IF h > Len(gestures)
    THEN flags
    ELSE ScanGestures(gestures, h + 1, ScanHandGestures(gestures[h], 1, flags))

\* A scan that stops after the first hand.
TensionFirstHandOnly(gestures) ==
    LET flags == IF Len(gestures) = 0
                 THEN [isFist |-> FALSE, isOpen |-> FALSE]
                 ELSE ScanHandGestures(gestures[1], 1,
                          [isFist |-> FALSE, isOpen |-> FALSE])
    IN  IF flags.isFist THEN 1000 ELSE IF flags.isOpen THEN 100 ELSE 400

\* if (isFist) tension = 1.0; else if (isOpen) tension = 0.1; else tension = 0.4
Tension(gestures) ==
    LET flags == ScanGestures(gestures, 1, [isFist |-> FALSE, isOpen |-> FALSE])
    IN  IF flags.isFist THEN 1000 ELSE IF flags.isOpen THEN 100 ELSE 400

\* Expansion: two hands -> clamp(0.2, 3.5, (dist*2.5)^1.2); otherwise 1.0.
ExpansionUnclamped(landmarks) ==
    IF Len(landmarks) = 2
    THEN LET dx == landmarks[1][0].x - landmarks[2][0].x
             dy == landmarks[1][0].y - landmarks[2][0].y
         IN  100 * PowTenths(dx * dx + dy * dy)
    ELSE 1000

\* The clamp without its lower bound.
ExpansionNoFloor(landmarks) ==
    IF Len(landmarks) = 2
    THEN LET dx == landmarks[1][0].x - landmarks[2][0].x
             dy == landmarks[1][0].y - landmarks[2][0].y
         IN  100 * Min2(35, PowTenths(dx * dx + dy * dy))
    ELSE 1000

Expansion(landmarks) ==
    IF Len(landmarks) = 2
    THEN LET dx == landmarks[1][0].x - landmarks[2][0].x
             dy == landmarks[1][0].y - landmarks[2][0].y
         IN  100 * Max2(2, Min2(35, PowTenths(dx * dx + dy * dy)))
    ELSE 1000

\* centroidX, centroidY in fortieths.
CentroidX(landmarks) ==
    IF Len(landmarks) = 2
    THEN landmarks[1][0].x + landmarks[2][0].x
    ELSE 2 * landmarks[1][0].x

CentroidY(landmarks) ==
    IF Len(landmarks) = 2
    THEN landmarks[1][0].y + landmarks[2][0].y
    ELSE 2 * landmarks[1][0].y

\* rawHandSize in fortieths.
RawHandSize(landmarks) ==
    IF Len(landmarks) = 2
    THEN Abs(landmarks[1][0].y - landmarks[1][9].y)
         + Abs(landmarks[2][0].y - landmarks[2][9].y)
    ELSE 2 * Abs(landmarks[1][0].y - landmarks[1][9].y)

\* Focus sweet spot: (1 - deviation/TOLERANCE)^2 inside the tolerance, else 0.
FocusNoCutoff(rawHandSize) ==
    LET deviation == Abs(rawHandSize - TARGET_SIZE)
    IN  (1000 * (TOLERANCE - deviation) * (TOLERANCE - deviation))
            \div (TOLERANCE * TOLERANCE)

Focus(rawHandSize) ==
    LET deviation == Abs(rawHandSize - TARGET_SIZE)
    IN  IF deviation < TOLERANCE
        THEN (1000 * (TOLERANCE - deviation) * (TOLERANCE - deviation))
                 \div (TOLERANCE * TOLERANCE)
        ELSE 0

\* rotation.y = (centroidX - 0.5) * (PI/1.5); rotation.x = -(centroidY - 0.5) * (PI/1.5)
Rotation(landmarks) ==
    [x |-> 0 - (((CentroidY(landmarks) - 20) * PiMilli) \div 60),
     y |-> ((CentroidX(landmarks) - 20) * PiMilli) \div 60]

\* analyzeResult(result): the observation of one recognizer result.
analyzeResultNeutralWithoutHands(result) ==
    LET landmarks     == result.landmarks
        gestures      == result.gestures
        handsDetected == Len(landmarks)
    IN  IF handsDetected > 0
        THEN [state |-> [expansion |-> Expansion(landmarks),
                         tension   |-> Tension(gestures),
                         focus     |-> Focus(RawHandSize(landmarks)),
                         rotation  |-> Rotation(landmarks)],
              gesture |-> IF Len(gestures) > 0 /\ Len(gestures[1]) > 0
                          THEN gestures[1][1] ELSE "None",
              handsDetected |-> handsDetected]
        ELSE [state |-> [expansion |-> 1000, tension |-> 0, focus |-> 500,
                         rotation |-> [x |-> 0, y |-> 0]],
              gesture |-> "No Hands",
              handsDetected |-> 0]

analyzeResult(result) ==
    LET landmarks     == result.landmarks
        gestures      == result.gestures
        handsDetected == Len(landmarks)
    IN  IF handsDetected > 0
        THEN [state |-> [expansion |-> Expansion(landmarks),
                         tension   |-> Tension(gestures),
                         focus     |-> Focus(RawHandSize(landmarks)),
                         rotation  |-> Rotation(landmarks)],
              gesture |-> IF Len(gestures) > 0 /\ Len(gestures[1]) > 0
                          THEN gestures[1][1] ELSE "None",
              handsDetected |-> handsDetected]
        ELSE [state |-> [expansion |-> 1000, tension |-> 0, focus |-> 0,
                         rotation |-> [x |-> 0, y |-> 0]],
              gesture |-> "No Hands",
              handsDetected |-> 0]

Sentinel(label) ==
    [state |-> NeutralState, gesture |-> label, handsDetected |-> 0]

\* The recognizer's outcome on one frame: a result (landmarks and gestures per
\* hand), or an exception raised by recognizeForVideo or by the analysis.
Throws == [throws |-> TRUE, landmarks |-> <<>>, gestures |-> <<>>]

\* The try block covers recognizeForVideo and analyzeResult; the catch returns
\* the 'Error' sentinel.
Recognize(outcome) ==
    IF outcome.throws THEN Sentinel("Error") ELSE analyzeResult(outcome)

\* Whether an exception leaves processVideo (the catch has no rethrow).
ExceptionEscapesOnThrow(outcome) == outcome.throws

ExceptionEscapes(outcome) == FALSE

\* if (video.currentTime !== this.lastVideoTime)
FrameIsNewAlways(currentTime, lvt) == TRUE

FrameIsNew(currentTime, lvt) == currentTime # lvt

\* this.lastVideoTime after the call: assigned before the try block, only on
\* the path that reaches the recognizer.
LastVideoTimeBeforeChecks(recognizer, lvt, vid, outcome) ==
    vid.currentTime

LastVideoTimeOnSuccess(recognizer, lvt, vid, outcome) ==
    IF recognizer /\ vid.ready /\ FrameIsNew(vid.currentTime, lvt)
       /\ ~outcome.throws
    THEN vid.currentTime
    ELSE lvt

LastVideoTimeAfter(recognizer, lvt, vid, outcome) ==
    IF recognizer /\ vid.ready /\ FrameIsNew(vid.currentTime, lvt)
    THEN vid.currentTime
    ELSE lvt

\* processVideo(video): the observation returned, this.lastVideoTime afterwards,
\* and whether recognizeForVideo was invoked.  vid.ready stands for
\* video.videoWidth && video.readyState >= 2.
processVideo(recognizer, lvt, vid, outcome) ==
    [result |->
        IF ~recognizer THEN Sentinel("Loading Model...")
        ELSE IF ~vid.ready THEN Sentinel("Waiting for Video...")
        ELSE IF FrameIsNew(vid.currentTime, lvt) THEN Recognize(outcome)
        ELSE Sentinel("None"),
     lastVideoTime |-> LastVideoTimeAfter(recognizer, lvt, vid, outcome),
     invoked |-> recognizer /\ vid.ready /\ FrameIsNew(vid.currentTime, lvt),
     thrown  |-> recognizer /\ vid.ready /\ FrameIsNew(vid.currentTime, lvt)
                 /\ ExceptionEscapes(outcome)]

\* ------------------------------------------------------------- AudioService
\* Audio parameters in millihertz.  initialize() sets the drone filter to 100 Hz,
\* the drone oscillator to 55 Hz and the FM modulator to 110 Hz; the FM filter
\* keeps the BiquadFilterNode default frequency (350 Hz).
InitialAudioParams ==
    [cutoff |-> 100000, dronePitch |-> 55000,
     centerFreq |-> 350000, modFreq |-> 110000]

\* AudioService.update(state)
AudioUpdate(a, state) ==
    IF ~a.ctx \/ a.isMuted
    THEN a
    ELSE [a EXCEPT !.params =
             [cutoff     |-> 50000 + state.expansion * 400,
              dronePitch |-> 55000 + state.tension * 10,
              centerFreq |-> 200000 + state.focus * 400,
              modFreq    |-> 100000 + state.tension * 50]]

\* AudioService.initialize(): builds the graph once.
AudioInitializeAgain(a) == [a EXCEPT !.ctx = TRUE, !.params = InitialAudioParams]

AudioInitialize(a) ==
    IF a.ctx THEN a ELSE [a EXCEPT !.ctx = TRUE, !.params = InitialAudioParams]

\* AudioService.resume()
AudioResume(a) == [a EXCEPT !.isMuted = FALSE]

\* AudioService.toggleMute(muted)
AudioToggleMute(a, muted) == [a EXCEPT !.isMuted = muted]

\* App.handleToggleSound(muted): initialize + resume when unmuting, then toggleMute.
HandleToggleSound(a, muted) ==
    LET b == IF muted THEN a ELSE AudioResume(AudioInitialize(a))
    IN  AudioToggleMute(b, muted)

\* ------------------------------------------------------------------- App
ParticleShapes == {"Heart", "Flower", "Saturn", "Buddha", "Fireworks"}

\* if (result.gesture !== 'None' && result.gesture !== 'Waiting for Video...')
PropagatesExceptNone(result) == result.gesture # "None"

Propagates(result) ==
    result.gesture # "None" /\ result.gesture # "Waiting for Video..."

\* audioService.current.update(result.state): the state predict hands to the
\* audio service (the smoothed values live in refs of Particles).
AudioArgumentSmoothed(result, smoothedState) == smoothedState

AudioArgument(result, smoothedState) == result.state

\* Gesture -> Shape mapping (the switch in predict).
ShapeAfterPalmSaturn(gesture, current) ==
    CASE gesture = "Victory"     -> "Flower"
      [] gesture = "Thumb_Up"    -> "Heart"
      [] gesture = "Pointing_Up" -> "Fireworks"
      [] gesture = "ILoveYou"    -> "Buddha"
      [] gesture = "Open_Palm"   -> "Saturn"
      [] OTHER                   -> current

ShapeAfter(gesture, current) ==
    CASE gesture = "Victory"     -> "Flower"
      [] gesture = "Thumb_Up"    -> "Heart"
      [] gesture = "Pointing_Up" -> "Fireworks"
      [] gesture = "ILoveYou"    -> "Buddha"
      [] OTHER                   -> current

\* One hand's landmarks: index 0 is the wrist, index 9 the middle-finger base.
Hand(wx, wy, my) == (0 :> [x |-> wx, y |-> wy] @@ 9 :> [x |-> wx, y |-> my])

Result(landmarks, gestures) ==
    [throws |-> FALSE, landmarks |-> landmarks, gestures |-> gestures]

\* Recognizer outcomes the camera loop is exercised with.
AppGestureLists ==
    {<<>>} \cup {<<g>> : g \in {"None", "Victory", "Thumb_Up", "Pointing_Up",
                                "ILoveYou", "Open_Palm"}}

AppOutcomes ==
    {Throws, Result(<<>>, <<>>),
     Result(<<Hand(4, 10, 6), Hand(16, 10, 4)>>,
            <<<<"Closed_Fist">>, <<"Open_Palm">>>>)}
    \cup {Result(<<Hand(10, 10, 5)>>, <<gl>>) : gl \in AppGestureLists}

VARIABLES
    phase,              \* App start-up / loop position
    gestureRecognizer,  \* VisionService.gestureRecognizer is non-null
    lastVideoTime,      \* VisionService.lastVideoTime
    video,              \* the <video> element: currentTime, ready, paused
    particleState,      \* App state: the raw control state handed to the scene
    visionState,        \* App state: isLoaded, gesture, handsVisible
    shape,              \* App state: the active shape
    audio,              \* AudioService: ctx, isMuted, params
    uiMuted,            \* Controls.isMuted
    last,               \* history: what the last processVideo call / tick did
    detections,         \* history: recognizer invocations per frame index
    smoothed,           \* Particles refs: currentExpansion/Tension/Focus/Rotation
    frame,              \* history: the last useFrame call (inputs, values before)
    sceneProps,         \* the props Particles was last rendered with
    targetPositions,    \* Particles: the memoized generateParticles array
    currentBasePositions, \* Particles ref: the persisted base-position buffer
    geometry,           \* the points object: position attribute and rotation
    input,              \* the recognizer result drawn for a VisionService run
    generated,          \* the generateParticles calls of a generator run
    gemini,             \* GeminiService: fields, live connection, timers, history
    saturn,             \* the Saturn branch of generateParticles, particle by particle
    unmounted           \* the App has unmounted: refs detached, effect cleanup run

appVars == <<phase, gestureRecognizer, lastVideoTime, video, particleState,
             visionState, shape, audio, uiMuted, last, detections>>

sceneVars == <<smoothed, frame, sceneProps, targetPositions,
               currentBasePositions, geometry>>

vars == <<appVars, sceneVars, input, generated, gemini, saturn, unmounted>>

NoTick ==
    [called |-> FALSE, recognizer |-> FALSE, time |-> -1, lvtBefore |-> -1,
     threw |-> FALSE, afterError |-> FALSE, result |-> Sentinel("-"),
     invoked |-> FALSE, propagated |-> FALSE, rescheduled |-> FALSE,
     hands |-> 0, audioUpdates |-> 0, audioArg |-> NeutralState]

AppInit ==
    /\ phase = "initializing"
    /\ gestureRecognizer = FALSE
    /\ lastVideoTime = -1
    /\ video = [currentTime |-> 0, ready |-> FALSE, paused |-> TRUE]
    /\ particleState = NeutralState
    /\ visionState = [isLoaded |-> FALSE, gesture |-> "Initializing...",
                      handsVisible |-> 0]
    /\ shape = "Heart"
    /\ audio = [ctx |-> FALSE, isMuted |-> TRUE, params |-> InitialAudioParams]
    /\ uiMuted = TRUE
    /\ last = NoTick
    /\ detections = [t \in 0..MaxTime |-> 0]

\* The phase after startCamera is entered: if (!videoRef.current) return.
StartCamera(detached) == IF detached THEN "stopped" ELSE "getUserMedia"

\* The phase after getUserMedia resolves: the ref is checked again; play() is
\* awaited, or the stream is stopped.
AfterGetUserMedia(detached) == IF detached THEN "stopped" ELSE "play"

\* The phase in which the camera start-up awaits getUserMedia.
CameraStartsAtOnce(ph) == ph \in {"initializing", "getUserMedia"}

CameraStartsAt(ph) == ph = "getUserMedia"

\* setVisionState(update): a state update of an unmounted component is dropped.
SetVisionState(detached, current, next) == IF detached THEN current ELSE next

\* initVision: await visionService.initialize() resolves; startCamera() is called.
InitializeResolve ==
    /\ phase = "initializing"
    /\ gestureRecognizer' = TRUE
    /\ visionState' =
           SetVisionState(unmounted, visionState,
                          [visionState EXCEPT !.isLoaded = TRUE,
                                              !.gesture = "Ready"])
    /\ phase' = StartCamera(unmounted)
    /\ UNCHANGED <<lastVideoTime, video, particleState, shape, audio, uiMuted,
                   last, detections>>
    /\ UNCHANGED <<sceneVars, input, generated, gemini, saturn, unmounted>>

\* initVision: initialize() rejects.
InitializeReject ==
    /\ phase = "initializing"
    /\ visionState' =
           SetVisionState(unmounted, visionState,
                          [visionState EXCEPT !.gesture = "Init Failed"])
    /\ phase' = "failed"
    /\ UNCHANGED <<gestureRecognizer, lastVideoTime, video, particleState, shape,
                   audio, uiMuted, last, detections>>
    /\ UNCHANGED <<sceneVars, input, generated, gemini, saturn, unmounted>>

\* startCamera: getUserMedia resolves; srcObject is set and play() is awaited.
GetUserMediaResolve ==
    /\ CameraStartsAt(phase)
    /\ phase' = AfterGetUserMedia(unmounted)
    /\ UNCHANGED <<gestureRecognizer, lastVideoTime, video, particleState,
                   visionState, shape, audio, uiMuted, last, detections>>
    /\ UNCHANGED <<sceneVars, input, generated, gemini, saturn, unmounted>>

\* startCamera: getUserMedia or play() rejects.
CameraError ==
    /\ phase \in {"getUserMedia", "play"}
    /\ visionState' =
           SetVisionState(unmounted, visionState,
                          [visionState EXCEPT !.gesture = "Camera Error"])
    /\ phase' = "failed"
    /\ UNCHANGED <<gestureRecognizer, lastVideoTime, video, particleState, shape,
                   audio, uiMuted, last, detections>>
    /\ UNCHANGED <<sceneVars, input, generated, gemini, saturn, unmounted>>

\* startCamera: play() resolves; the first predict is scheduled.
PlayResolve ==
    /\ phase = "play"
    /\ \E r \in BOOLEAN :
           video' = [video EXCEPT !.paused = FALSE, !.ready = r]
    /\ phase' = "running"
    /\ UNCHANGED <<gestureRecognizer, lastVideoTime, particleState, visionState,
                   shape, audio, uiMuted, last, detections>>
    /\ UNCHANGED <<sceneVars, input, generated, gemini, saturn, unmounted>>

\* The camera delivers the next frame.
VideoAdvance ==
    /\ phase = "running"
    /\ ~video.paused
    /\ video.currentTime < MaxTime
    /\ video' = [video EXCEPT !.currentTime = @ + 1]
    /\ UNCHANGED <<phase, gestureRecognizer, lastVideoTime, particleState,
                   visionState, shape, audio, uiMuted, last, detections>>
    /\ UNCHANGED <<sceneVars, input, generated, gemini, saturn, unmounted>>

\* readyState crosses HAVE_CURRENT_DATA (the stream stalls or recovers).
VideoReadyChange ==
    /\ phase = "running"
    /\ video' = [video EXCEPT !.ready = ~@]
    /\ UNCHANGED <<phase, gestureRecognizer, lastVideoTime, particleState,
                   visionState, shape, audio, uiMuted, last, detections>>
    /\ UNCHANGED <<sceneVars, input, generated, gemini, saturn, unmounted>>

\* The browser pauses or resumes the element.
VideoPauseChange ==
    /\ phase = "running"
    /\ video' = [video EXCEPT !.paused = ~@]
    /\ UNCHANGED <<phase, gestureRecognizer, lastVideoTime, particleState,
                   visionState, shape, audio, uiMuted, last, detections>>
    /\ UNCHANGED <<sceneVars, input, generated, gemini, saturn, unmounted>>

\* Controls.handleSoundToggle -> App.handleToggleSound
SoundToggle ==
    /\ uiMuted' = ~uiMuted
    /\ audio' = HandleToggleSound(audio, ~uiMuted)
    /\ UNCHANGED <<phase, gestureRecognizer, lastVideoTime, video, particleState,
                   visionState, shape, last, detections>>
    /\ UNCHANGED <<sceneVars, input, generated, gemini, saturn, unmounted>>

\* A shape button of the control panel: setShape(s).
SetShapeButton ==
    /\ \E s \in ParticleShapes : shape' = s
    /\ UNCHANGED <<phase, gestureRecognizer, lastVideoTime, video, particleState,
                   visionState, audio, uiMuted, last, detections>>
    /\ UNCHANGED <<sceneVars, input, generated, gemini, saturn, unmounted>>

\* The outcomes the recognizer can produce on this call (one placeholder when
\* processVideo returns before reaching it).
OutcomesNow ==
    IF gestureRecognizer /\ video.ready /\ FrameIsNew(video.currentTime, lastVideoTime)
    THEN AppOutcomes
    ELSE {Throws}

\* One animation-frame callback: predict().
PredictTick ==
    /\ phase = "running"
    /\ IF ~unmounted /\ ~video.paused
       THEN \E outcome \in OutcomesNow :
            LET r == processVideo(gestureRecognizer, lastVideoTime, video, outcome)
                p == ~r.thrown /\ Propagates(r.result)
            IN  /\ lastVideoTime' = r.lastVideoTime
                /\ detections' = IF r.invoked
                                 THEN [detections EXCEPT ![video.currentTime] = @ + 1]
                                 ELSE detections
                /\ particleState' = IF p THEN r.result.state ELSE particleState
                /\ audio' = IF p
                            THEN AudioUpdate(audio, AudioArgument(r.result, smoothed))
                            ELSE audio
                /\ visionState' =
                       IF p THEN [visionState EXCEPT
                                     !.gesture = r.result.gesture,
                                     !.handsVisible = r.result.handsDetected]
                       ELSE visionState
                /\ shape' = IF p THEN ShapeAfter(r.result.gesture, shape) ELSE shape
                /\ phase' = IF r.thrown THEN "crashed" ELSE "running"
                /\ last' = [called |-> TRUE, recognizer |-> gestureRecognizer,
                            time |-> video.currentTime,
                            lvtBefore |-> lastVideoTime,
                            threw |-> r.invoked /\ outcome.throws,
                            afterError |-> last.called /\ last.result.gesture = "Error",
                            result |-> r.result, invoked |-> r.invoked,
                            propagated |-> p, rescheduled |-> ~r.thrown,
                            hands |-> IF r.invoked THEN Len(outcome.landmarks)
                                      ELSE 0,
                            audioUpdates |-> IF p THEN 1 ELSE 0,
                            audioArg |-> IF p
                                         THEN AudioArgument(r.result, smoothed)
                                         ELSE NeutralState]
       ELSE /\ last' = [NoTick EXCEPT !.rescheduled = TRUE]
            /\ UNCHANGED <<phase, lastVideoTime, detections, particleState, audio,
                           visionState, shape>>
    /\ UNCHANGED <<gestureRecognizer, video, uiMuted, sceneVars, input, generated, gemini, saturn, unmounted>>

\* ------------------------------------------------------------ GeminiService
\* setInterval timers startVideoStreaming creates in a run.
MaxIntervals == 2

\* JavaScript values a tool call can carry in args.expansion / args.tension:
\* undefined (argument missing), null, numbers (in 1/1000), NaN, strings.
JsUndefined == [type |-> "undefined", nan |-> FALSE, value |-> 0]

JsNull == [type |-> "null", nan |-> FALSE, value |-> 0]

JsNumber(n) == [type |-> "number", nan |-> FALSE, value |-> n]

JsNaN == [type |-> "number", nan |-> TRUE, value |-> 0]

\* A string, with the number it parses to (or NaN).
JsString(parsed) == [type |-> "string", nan |-> parsed.nan, value |-> parsed.value]

\* args.expansion: missing, null, 0, 2.5, "wide", "2".
ExpansionArgs ==
    {JsUndefined, JsNull, JsNumber(0), JsNumber(2500), JsString(JsNaN),
     JsString(JsNumber(2000))}

\* args.tension: missing, 0, 0.7, "tight".
TensionArgs == {JsUndefined, JsNumber(0), JsNumber(700), JsString(JsNaN)}

\* Number(v)
ToNumber(v) ==
    CASE v.type = "number"    -> v
      [] v.type = "undefined" -> JsNaN
      [] v.type = "null"      -> JsNumber(0)
      [] v.type = "string"    -> [type |-> "number", nan |-> v.nan,
                                  value |-> v.value]

\* Number(v) || fallback: NaN and 0 are falsy.
NumberOr(v, fallback) ==
    LET n == ToNumber(v)
    IN  IF n.nan \/ n.value = 0 THEN fallback ELSE n.value

\* The state onmessage hands to onStateUpdate for a setParticleState call.
ToolCallState(args) ==
    [expansion |-> NumberOr(args.expansion, 1000),
     tension   |-> NumberOr(args.tension, 0),
     focus     |-> 500,
     rotation  |-> [x |-> 0, y |-> 0]]

\* this.sessionPromise?.then(session => session.sendToolResponse(...)): the
\* responses sent for one call.
ToolResponses(sessionPromise) == IF sessionPromise = "resolved" THEN 1 ELSE 0

ToolNames == {"setParticleState", "otherTool"}

NoCall ==
    [received |-> FALSE, name |-> "-",
     args |-> [expansion |-> JsUndefined, tension |-> JsUndefined],
     updates |-> 0, update |-> NeutralState, responses |-> 0,
     afterDisconnect |-> FALSE]

NoFrameSent == [sent |-> FALSE, session |-> FALSE, afterDisconnect |-> FALSE]

\* A constructed service: no callback, no stream, no session, no timer.
\* link is the live connection opened by ai.live.connect (the service never
\* closes it); timers are the active setInterval ids.
GeminiIdle ==
    [step |-> "idle", onStateUpdate |-> FALSE, stream |-> FALSE,
     sessionPromise |-> "null", currentSession |-> FALSE, link |-> "none",
     videoInterval |-> 0, timers |-> {}, created |-> 0, disconnected |-> FALSE,
     lastCall |-> NoCall, lastFrame |-> NoFrameSent]

\* ------------------------------------------------- Particles (the frame loop)
\* Positions are in thousandths of a scene unit, and the model follows the x
\* coordinate of one particle: the loop body runs the same statements for every
\* particle and axis, each with its own oscillator phase and random draw.

\* Frames a scene run renders.
MaxFrames == 2

\* generateParticles calls in a scene run.
MaxGenerations == 2

\* Frame deltas in milliseconds (a hidden tab or a slow frame gives a long one).
Deltas == {0, 16, 250, 500}

\* The index i of the particle followed.
ParticleIndex == 1

\* Math.sin(x) in 1/1000 for x >= 0 in milliradians (Bhaskara's rational
\* approximation on each half period; exact at 0, pi/6, pi/2, 5pi/6 and pi).
SinMilli(x) ==
    LET y    == x % (2 * PiMilli)
        half == IF y <= PiMilli THEN y ELSE y - PiMilli
        p    == half * (PiMilli - half)
        v    == (16 * p) \div ((5 * PiMilli * PiMilli - 4 * p) \div 1000)
    IN  IF y <= PiMilli THEN v ELSE 0 - v

\* Math.sin(i * 13.2 + time), time in milliseconds.
NoiseSin(time) == SinMilli(13200 * ParticleIndex + time)

\* Math.sin(time * 0.8 + i * 0.01), time in milliseconds.
BreathSin(time) == SinMilli((8 * time) \div 10 + 10 * ParticleIndex)

\* Math.random() in 1/1000: a value in [0, 1).
Randoms == {0, 500, 999}

\* a * w / 1000, rounded toward zero.
MulMilli(a, w) ==
    IF a * w >= 0 THEN (a * w) \div 1000 ELSE 0 - ((0 - a * w) \div 1000)

\* The coordinates generateParticles can draw for a shape (a sample that lies
\* inside the shape's extent on every axis); the default branch is the cube
\* (Math.random() - 0.5) * 5.
Coords(shapeArg) ==
    CASE shapeArg = "Heart"     -> {-1000, 1000}
      [] shapeArg = "Flower"    -> {-500, 500}
      [] shapeArg = "Saturn"    -> {-1500, 1500}
      [] shapeArg = "Buddha"    -> {-700, 700}
      [] shapeArg = "Fireworks" -> {-3000, 3000}
      [] OTHER                  -> {-2500, 2499}

\* new Float32Array(count * 3)
ArrayLengthPairs(count) == 2 * count

ArrayLength(count) == 3 * count

\* generateParticles(shape, count): the arrays a call can return.  The loop
\* writes positions[i*3], [i*3+1], [i*3+2] for i < count, each from its own
\* random draws; a typed array drops writes beyond its length.
GenerateParticles(shapeArg, count) ==
    {[k \in 1..ArrayLength(count) |-> IF k <= 3 * count THEN draw[k] ELSE 0] :
         draw \in [1..(3 * count) -> Coords(shapeArg)]}

\* No call yet.
NoArrays ==
    [calls |-> 0, earlier |-> {}, previous |-> "-", id |-> 0, shape |-> "-",
     count |-> 0, data |-> <<>>]

\* useMemo(() => generateParticles(shape, PARTICLE_COUNT), [shape]): whether the
\* dependency differs from the one of the previous render.
DepsChangedAlways(prevShape, nextShape) == TRUE

DepsChanged(prevShape, nextShape) == prevShape # nextShape

\* if (!isInitialized.current) currentBasePositions.current.set(targetPositions)
InitializeBufferOnRegenerate(isInitialized, regenerated, base, target) ==
    IF ~isInitialized \/ regenerated THEN target ELSE base

InitializeBuffer(isInitialized, regenerated, base, target) ==
    IF ~isInitialized THEN target ELSE base

\* const lerpSpeed = 4.0 * delta, as a weight in 1/1000.
LerpSpeedDouble(delta) == 8 * delta

LerpSpeed(delta) == 4 * delta

\* THREE.MathUtils.lerp(x, y, t) = (1 - t) * x + t * y, t in 1/1000.
Lerp(x, y, t) == ((1000 - t) * x + t * y) \div 1000

\* Step 1 of useFrame: the five smoothed scalars after one frame.
SmoothStep(cur, raw, delta) ==
    LET t == LerpSpeed(delta)
    IN  [expansion |-> Lerp(cur.expansion, raw.expansion, t),
         tension   |-> Lerp(cur.tension, raw.tension, t),
         focus     |-> Lerp(cur.focus, raw.focus, t),
         rotation  |-> [x |-> Lerp(cur.rotation.x, raw.rotation.x, t),
                        y |-> Lerp(cur.rotation.y, raw.rotation.y, t)]]

\* const morphSpeed = 3.0 * delta, as a weight in 1/1000.
MorphSpeedDouble(delta) == 6 * delta

MorphSpeed(delta) == 3 * delta

\* Step A: base += (target - base) * morphSpeed
MorphStep(base, target, delta) ==
    base + MulMilli(target - base, MorphSpeed(delta))

\* const noiseFactor = (1.0 - currentFocus.current) * 2.0
NoiseFactor(focus) == (1000 - focus) * 2

\* const jitter = currentTension.current * 0.15, in 1/1000000.
JitterMicro(tension) == tension * 150

\* if (jitter > 0.01)
JitterActiveAlways(tension) == TRUE

JitterActive(tension) == JitterMicro(tension) > 10000

\* (Math.random() - 0.5) * jitter, in 1/1000.
JitterOffsetOneSided(tension, rnd) ==
    IF JitterActive(tension) THEN (rnd * JitterMicro(tension)) \div 1000000
    ELSE 0

JitterOffset(tension, rnd) ==
    IF JitterActive(tension)
    THEN LET num == (rnd - 500) * JitterMicro(tension)
         IN  IF num >= 0 THEN num \div 1000000 ELSE 0 - ((0 - num) \div 1000000)
    ELSE 0

\* Math.sin(time * 0.8 + i * 0.01) * 0.03 * (1 - currentTension.current)
Breathing(tension, time) ==
    LET b == MulMilli(BreathSin(time) * 30, 1000 - tension)
    IN  IF b >= 0 THEN b \div 1000 ELSE 0 - ((0 - b) \div 1000)

\* Step B: x *= currentExpansion.current
ExpandedTurned(base, sm) ==
    MulMilli(MulMilli(base, sm.expansion),
             SinMilli(Abs(sm.rotation.y) + PiMilli \div 2))

Expanded(base, sm) == MulMilli(base, sm.expansion)

\* Steps B to E: the coordinate written to the position attribute.
WrittenPosition(base, sm, time, rnd) ==
    LET x1 == Expanded(base, sm)
        x2 == IF NoiseFactor(sm.focus) > 10
              THEN x1 + MulMilli(NoiseSin(time), NoiseFactor(sm.focus))
              ELSE x1
        x3 == x2 + JitterOffset(sm.tension, rnd)
    IN  x3 + MulMilli(x3, Breathing(sm.tension, time))

\* -------------------------------------------- generateParticles, Saturn
\* Math.random() of the region selector, in 1/1000: the midpoints of five
\* equal cells of [0, 1), so that a set of cells has the measure of the
\* variates it stands for.
Selectors == {100, 300, 500, 700, 900}

\* Math.random() of an angle: quarter turns.
AngleRandoms == {0, 250, 500, 750}

\* Math.cos(x) in 1/1000, x >= 0 in milliradians.
CosMilli(x) == SinMilli(x + PiMilli \div 2)

\* Math.acos(2 * v - 1) in milliradians for the variates v drawn.
AcosRandoms == {0, 500, 999}

AcosMilli(v) ==
    CASE v = 0   -> PiMilli
      [] v = 500 -> PiMilli \div 2
      [] v = 999 -> 63

\* Math.cbrt(r) in 1/1000 for the variates r drawn.
CbrtRandoms == {0, 125, 999}

CbrtMilli(r) ==
    CASE r = 0   -> 0
      [] r = 125 -> 500
      [] r = 999 -> 999

\* randomInSphere() from the variates u, v, r.
RandomInSphere(u, v, r) ==
    LET theta  == MulMilli(2 * PiMilli, u)
        phi    == AcosMilli(v)
        rad    == CbrtMilli(r)
        sinPhi == SinMilli(phi)
    IN  [x |-> MulMilli(MulMilli(rad, sinPhi), CosMilli(theta)),
         y |-> MulMilli(MulMilli(rad, sinPhi), SinMilli(theta)),
         z |-> MulMilli(rad, CosMilli(phi))]

\* const isRing = Math.random() > 0.4
IsRingBelow(u) == u < 400

IsRing(u) == u > 400

\* The ring branch: angle = Math.random() * 2pi, dist = 3 + Math.random() * 2,
\* y = (Math.random() - 0.5) * 0.2.
RingPoint(a, d, h) ==
    LET angle == MulMilli(2 * PiMilli, a)
        dist  == 3000 + MulMilli(d, 5000 - 3000)
    IN  [x |-> MulMilli(CosMilli(angle), dist),
         y |-> MulMilli(h - 500, 200),
         z |-> MulMilli(SinMilli(angle), dist)]

\* The planet branch: randomInSphere() scaled by 2.
PlanetPoint(u, v, r) ==
    LET p == RandomInSphere(u, v, r)
    IN  [x |-> p.x * 2, y |-> p.y * 2, z |-> p.z * 2]

\* The tilt by pi/6 about the x axis (cos = 0.866, sin = 0.5).
Tilt(p) ==
    [x |-> p.x,
     y |-> MulMilli(p.y, 866) - MulMilli(p.z, 500),
     z |-> MulMilli(p.y, 500) + MulMilli(p.z, 866)]

\* No Saturn particle generated yet; planet and ring are the selector cells
\* that have produced a planet point and a ring point so far.
NoParticle ==
    [drawn |-> FALSE, selector |-> 0, isRing |-> FALSE,
     local |-> [x |-> 0, y |-> 0, z |-> 0],
     position |-> [x |-> 0, y |-> 0, z |-> 0],
     planet |-> {}, ring |-> {}]

\* useRef(1), useRef(0), useRef(0.5), new THREE.Euler()
InitialSmoothed ==
    [expansion |-> 1000, tension |-> 0, focus |-> 500,
     rotation |-> [x |-> 0, y |-> 0]]

NoFrame ==
    [n |-> 0, delta |-> 0, prev |-> InitialSmoothed, raw |-> NeutralState,
     time |-> 0, rnd |-> 500, jitter |-> 0,
     base |-> 0, target |-> 0, serial |-> 0, prevSerial |-> 0]

\* Before the canvas has rendered Particles for the first time.
SceneInit ==
    /\ smoothed = InitialSmoothed
    /\ frame = NoFrame
    /\ sceneProps = [mounted |-> FALSE, shape |-> "Heart",
                     particleState |-> NeutralState]
    /\ targetPositions = [x |-> 0, serial |-> 0]
    /\ currentBasePositions = 0
    /\ geometry = [x |-> 0, rotation |-> [x |-> 0, y |-> 0]]
    /\ generated = NoArrays
    /\ gemini = GeminiIdle
    /\ saturn = NoParticle
    /\ unmounted = FALSE

\* Recognizer outcomes whose observations the scene run is fed with: an error
\* (neutral state), no hands, two hands in opposite corners, two hands together.
SceneOutcomes ==
    {Throws, Result(<<>>, <<>>),
     Result(<<Hand(0, 0, 5), Hand(20, 20, 15)>>, <<<<"Closed_Fist">>, <<>>>>),
     Result(<<Hand(20, 20, 15), Hand(20, 20, 15)>>, <<<<"Open_Palm">>, <<>>>>)}

\* predict -> setParticleState(result.state): the scene's particleState prop.
SetParticleState ==
    /\ \E o \in SceneOutcomes :
           /\ Propagates(Recognize(o))
           /\ particleState' = Recognize(o).state
    /\ UNCHANGED <<phase, gestureRecognizer, lastVideoTime, video, visionState,
                   shape, audio, uiMuted, last, detections, sceneVars, input, generated, gemini, saturn, unmounted>>

\* Particles is rendered (first render, or re-render after the App's shape or
\* particleState changed): useMemo regenerates the targets when the shape
\* dependency changed, and the base buffer is filled on the first render only.
RenderScene ==
    /\ \/ ~sceneProps.mounted
       \/ sceneProps.shape # shape
       \/ sceneProps.particleState # particleState
    /\ LET regenerate == \/ ~sceneProps.mounted
                         \/ DepsChanged(sceneProps.shape, shape)
       IN  /\ regenerate => targetPositions.serial < MaxGenerations
           /\ \E c \in Coords(shape) :
                  /\ targetPositions' =
                         IF regenerate
                         THEN [x |-> c, serial |-> targetPositions.serial + 1]
                         ELSE targetPositions
                  /\ currentBasePositions' =
                         InitializeBuffer(sceneProps.mounted, regenerate,
                                          currentBasePositions, targetPositions'.x)
    /\ sceneProps' = [mounted |-> TRUE, shape |-> shape,
                      particleState |-> particleState]
    /\ UNCHANGED <<appVars, smoothed, frame, geometry, input, generated, gemini, saturn, unmounted>>

\* useFrame((state, delta) => ...), the clock's elapsed time being the sum of
\* the deltas: smoothing of the global state values, the
\* rotation of the points object, the morph of the base buffer and the write of
\* the position attribute.
Frame(limit, deltas) ==
    /\ sceneProps.mounted
    /\ frame.n < limit
    /\ \E delta \in deltas :
       LET sm   == SmoothStep(smoothed, sceneProps.particleState, delta)
           base == MorphStep(currentBasePositions, targetPositions.x, delta)
           time == frame.time + delta
       IN  \E rnd \in (IF JitterActive(sm.tension) THEN Randoms ELSE {500}) :
           /\ smoothed' = sm
           /\ currentBasePositions' = base
           /\ geometry' = [x |-> WrittenPosition(base, sm, time, rnd),
                           rotation |-> sm.rotation]
           /\ frame' = [n |-> frame.n + 1, delta |-> delta, prev |-> smoothed,
                        raw |-> sceneProps.particleState,
                        time |-> time, rnd |-> rnd,
                        jitter |-> JitterOffset(sm.tension, rnd),
                        base |-> currentBasePositions,
                        target |-> targetPositions.x,
                        serial |-> targetPositions.serial,
                        prevSerial |-> frame.serial]
    /\ UNCHANGED <<appVars, sceneProps, targetPositions, input, generated, gemini, saturn, unmounted>>

\* The frames of a bounded run, with any delta.
UseFrame == Frame(MaxFrames, Deltas)

SceneNext == SetParticleState \/ RenderScene \/ UseFrame

\* The scene of a running App: the loop has started, nothing propagated yet.
SceneAppInit ==
    /\ phase = "running"
    /\ gestureRecognizer = TRUE
    /\ lastVideoTime = -1
    /\ video = [currentTime |-> 0, ready |-> TRUE, paused |-> FALSE]
    /\ particleState = NeutralState
    /\ visionState = [isLoaded |-> TRUE, gesture |-> "Ready", handsVisible |-> 0]
    /\ shape = "Heart"
    /\ audio = [ctx |-> FALSE, isMuted |-> TRUE, params |-> InitialAudioParams]
    /\ uiMuted = TRUE
    /\ last = NoTick
    /\ detections = [t \in 0..MaxTime |-> 0]

SceneRunInit == SceneAppInit /\ SceneInit /\ input = Throws

SpecScene == SceneRunInit /\ [][SceneNext]_vars

\* ------------------------- the predict loop and the frame loop, interleaved
\* Both loops run on animation frames of the same page: predict feeds
\* particleState, useFrame smooths toward it.
PipelineNext == PredictTick \/ RenderScene \/ UseFrame

\* A running App whose sound has been switched on, which has propagated a
\* two-hand observation (a fist and an open palm) from frame 0 and whose camera
\* has delivered frame 1.
PipelineInit ==
    /\ phase = "running"
    /\ gestureRecognizer = TRUE
    /\ lastVideoTime = 0
    /\ video = [currentTime |-> 1, ready |-> TRUE, paused |-> FALSE]
    /\ particleState =
           analyzeResult(Result(<<Hand(4, 10, 6), Hand(16, 10, 4)>>,
                                <<<<"Closed_Fist">>, <<"Open_Palm">>>>)).state
    /\ visionState = [isLoaded |-> TRUE, gesture |-> "Closed_Fist",
                      handsVisible |-> 2]
    /\ shape = "Heart"
    /\ audio = AudioUpdate([ctx |-> TRUE, isMuted |-> FALSE,
                            params |-> InitialAudioParams], particleState)
    /\ uiMuted = FALSE
    /\ last = NoTick
    /\ detections = [t \in 0..MaxTime |-> IF t = 0 THEN 1 ELSE 0]
    /\ SceneInit
    /\ input = Throws

SpecPipeline == PipelineInit /\ [][PipelineNext]_vars

\* ------------------------------------ shape changes under the frame loop
\* Shape buttons, re-renders and frames, interleaved (a gesture changes the
\* shape through the same setShape, see the predict loop above).
MorphNext == SetShapeButton \/ RenderScene \/ UseFrame

SpecMorph == SceneRunInit /\ [][MorphNext]_vars

\* ------------------------------------- the morph toward a target held fixed
\* Frames of a run that follows one shape switch to its end.
MaxMorphFrames == 12

\* Frame deltas in milliseconds with morphSpeed = 3.0 * delta in (0, 1]:
\* weights 0.75 and 0.999.
MorphDeltas == {250, 333}

\* The distance below which the smallest morph weight moves a coordinate by
\* less than one unit of the fixed-point grid (1/1000).
MorphResolution ==
    LET least == CHOOSE w \in {MorphSpeed(d) : d \in MorphDeltas} :
                     \A d \in MorphDeltas : w <= MorphSpeed(d)
    IN  1000 \div least

\* The shapes switched to.
MorphShapes == {"Flower", "Fireworks"}

MorphFrame == Frame(MaxMorphFrames, MorphDeltas)

\* Particles mounted with the Heart, then re-rendered for another shape: the
\* base buffer still holds the Heart, the targets are the new shape's.
MorphInit ==
    /\ phase = "running"
    /\ gestureRecognizer = TRUE
    /\ lastVideoTime = -1
    /\ video = [currentTime |-> 0, ready |-> TRUE, paused |-> FALSE]
    /\ particleState = NeutralState
    /\ visionState = [isLoaded |-> TRUE, gesture |-> "Ready", handsVisible |-> 0]
    /\ shape \in MorphShapes
    /\ audio = [ctx |-> FALSE, isMuted |-> TRUE, params |-> InitialAudioParams]
    /\ uiMuted = TRUE
    /\ last = NoTick
    /\ detections = [t \in 0..MaxTime |-> 0]
    /\ smoothed = InitialSmoothed
    /\ frame = NoFrame
    /\ sceneProps = [mounted |-> TRUE, shape |-> shape,
                     particleState |-> NeutralState]
    /\ targetPositions \in {[x |-> c, serial |-> 2] : c \in Coords(shape)}
    /\ currentBasePositions \in Coords("Heart")
    /\ geometry = [x |-> 0, rotation |-> [x |-> 0, y |-> 0]]
    /\ input = Throws
    /\ generated = NoArrays
    /\ gemini = GeminiIdle
    /\ saturn = NoParticle
    /\ unmounted = FALSE

SpecConverge == MorphInit /\ [][MorphFrame]_vars /\ WF_vars(MorphFrame)

\* ------------------------------------------- GeminiService (the handlers)
\* connect(onStateUpdate, onStatusChange) up to await getUserMedia.
GmConnect ==
    /\ gemini.step = "idle"
    /\ gemini' = [gemini EXCEPT !.step = "media", !.onStateUpdate = TRUE]
    /\ UNCHANGED <<appVars, sceneVars, input, generated, saturn, unmounted>>

\* getUserMedia resolves: connect proceeds to ai.live.connect and registers
\* the then-callback that stores the session.
GmMediaResolve ==
    /\ gemini.step = "media"
    /\ gemini' = [gemini EXCEPT !.step = "connected", !.stream = TRUE,
                                !.sessionPromise = "pending",
                                !.link = "connecting"]
    /\ UNCHANGED <<appVars, sceneVars, input, generated, saturn, unmounted>>

\* getUserMedia rejects: connect returns.
GmMediaReject ==
    /\ gemini.step = "media"
    /\ gemini' = [gemini EXCEPT !.step = "denied"]
    /\ UNCHANGED <<appVars, sceneVars, input, generated, saturn, unmounted>>

\* The live connection opens: the promise resolves and its then-callback sets
\* currentSession (also when disconnect() has cleared the field meanwhile).
GmSessionResolve ==
    /\ gemini.link = "connecting"
    /\ gemini' = [gemini EXCEPT
                     !.link = "open",
                     !.currentSession = TRUE,
                     !.sessionPromise = IF @ = "pending" THEN "resolved" ELSE @]
    /\ UNCHANGED <<appVars, sceneVars, input, generated, saturn, unmounted>>

\* The live connection fails to open.
GmSessionReject ==
    /\ gemini.link = "connecting"
    /\ gemini' = [gemini EXCEPT
                     !.link = "failed",
                     !.sessionPromise = IF @ = "pending" THEN "failed" ELSE @]
    /\ UNCHANGED <<appVars, sceneVars, input, generated, saturn, unmounted>>

\* onmessage with one function call.
GmToolCall ==
    /\ gemini.link = "open"
    /\ \E name \in ToolNames, e \in ExpansionArgs, t \in TensionArgs :
       LET args    == [expansion |-> e, tension |-> t]
           handled == name = "setParticleState"
           updated == handled /\ gemini.onStateUpdate
       IN  /\ particleState' = IF updated THEN ToolCallState(args)
                               ELSE particleState
           /\ gemini' = [gemini EXCEPT !.lastCall =
                  [received |-> TRUE, name |-> name, args |-> args,
                   updates |-> IF updated THEN 1 ELSE 0,
                   update |-> IF updated THEN ToolCallState(args)
                              ELSE NeutralState,
                   responses |-> IF handled
                                 THEN ToolResponses(gemini.sessionPromise)
                                 ELSE 0,
                   afterDisconnect |-> gemini.disconnected]]
    /\ UNCHANGED <<phase, gestureRecognizer, lastVideoTime, video, visionState,
                   shape, audio, uiMuted, last, detections, sceneVars, input,
                   generated, saturn, unmounted>>

\* The video element gets its dimensions.
GmVideoLoaded ==
    /\ ~video.ready
    /\ video' = [video EXCEPT !.ready = TRUE]
    /\ UNCHANGED <<phase, gestureRecognizer, lastVideoTime, particleState,
                   visionState, shape, audio, uiMuted, last, detections,
                   sceneVars, input, generated, gemini, saturn, unmounted>>

\* startVideoStreaming(videoElement)
GmStartVideoStreaming ==
    /\ gemini.created < MaxIntervals
    /\ gemini' = [gemini EXCEPT
                     !.timers = (@ \ {gemini.videoInterval})
                                \cup {gemini.created + 1},
                     !.videoInterval = gemini.created + 1,
                     !.created = @ + 1]
    /\ UNCHANGED <<appVars, sceneVars, input, generated, saturn, unmounted>>

\* One firing of a frame-sending interval.
GmIntervalTick ==
    /\ \E id \in gemini.timers :
           gemini' = [gemini EXCEPT !.lastFrame =
               IF gemini.currentSession /\ video.ready
               THEN [sent |-> TRUE, session |-> gemini.link = "open",
                     afterDisconnect |-> gemini.disconnected]
               ELSE [NoFrameSent EXCEPT
                        !.afterDisconnect = gemini.disconnected]]
    /\ UNCHANGED <<appVars, sceneVars, input, generated, saturn, unmounted>>

\* disconnect()
GmDisconnect ==
    /\ gemini' = [gemini EXCEPT
                     !.timers = @ \ {gemini.videoInterval},
                     !.stream = FALSE,
                     !.currentSession = FALSE,
                     !.sessionPromise = "null",
                     !.disconnected = TRUE]
    /\ UNCHANGED <<appVars, sceneVars, input, generated, saturn, unmounted>>

GeminiNext ==
    \/ GmConnect
    \/ GmMediaResolve
    \/ GmMediaReject
    \/ GmSessionResolve
    \/ GmSessionReject
    \/ GmToolCall
    \/ GmVideoLoaded
    \/ GmStartVideoStreaming
    \/ GmIntervalTick
    \/ GmDisconnect

GeminiInit == AppInit /\ SceneInit /\ input = Throws

SpecGemini == GeminiInit /\ [][GeminiNext]_vars

\* ------------------------------------- generateParticles under any caller
\* Calls in a run, and the particle counts they are made with.
MaxCalls == 2

Counts == {1, 2}

\* Shape arguments: the enum's values and a value outside it.
ShapeArguments == ParticleShapes \cup {"Unknown"}

\* A call generateParticles(shape, count): a new Float32Array is allocated
\* (its identity is the allocation number), filled and returned.  The record
\* keeps the identities returned earlier and the previous call's shape.
GenerateCall ==
    /\ generated.calls < MaxCalls
    /\ \E shapeArg \in ShapeArguments, count \in Counts :
       \E positions \in GenerateParticles(shapeArg, count) :
           generated' =
               [calls |-> generated.calls + 1,
                earlier |-> IF generated.calls = 0 THEN {}
                            ELSE generated.earlier \cup {generated.id},
                previous |-> generated.shape,
                id |-> generated.calls + 1,
                shape |-> shapeArg, count |-> count, data |-> positions]
    /\ UNCHANGED <<appVars, sceneVars, input, gemini, saturn, unmounted>>

GenerateInit == AppInit /\ SceneInit /\ input = Throws

SpecGenerate == GenerateInit /\ [][GenerateCall]_vars

\* ------------------------------- generateParticles, Saturn (the loop body)
\* One iteration of the loop for ParticleShape.SATURN.
SaturnParticle ==
    /\ \E u \in Selectors :
       \E p \in (IF IsRing(u)
                 THEN {RingPoint(a, d, h) :
                          a \in AngleRandoms, d \in Randoms, h \in Randoms}
                 ELSE {PlanetPoint(a, v, r) :
                          a \in AngleRandoms, v \in AcosRandoms,
                          r \in CbrtRandoms}) :
           saturn' =
               [drawn |-> TRUE, selector |-> u, isRing |-> IsRing(u),
                local |-> p, position |-> Tilt(p),
                planet |-> IF IsRing(u) THEN saturn.planet
                           ELSE saturn.planet \cup {u},
                ring |-> IF IsRing(u) THEN saturn.ring \cup {u}
                         ELSE saturn.ring]
    /\ UNCHANGED <<appVars, sceneVars, input, generated, gemini, unmounted>>

SaturnInit == AppInit /\ SceneInit /\ input = Throws

SpecSaturn == SaturnInit /\ [][SaturnParticle]_vars

\* --------------------------------- VisionService under an arbitrary caller
\* Hand geometries and gesture lists the recognizer result is drawn from.
HandGeometries ==
    {Hand(wx, wy, my) : wx \in {0, 20}, wy \in {0, 20}, my \in {5, 20}}

GestureLists ==
    {<<>>, <<"Closed_Fist">>, <<"Open_Palm">>, <<"Victory">>,
     <<"Open_Palm", "Closed_Fist">>}

VisionInputs ==
    {Result(<<>>, <<>>)}
    \cup {Result(<<h>>, <<g>>) : h \in HandGeometries, g \in GestureLists}
    \cup {Result(<<h1, h2>>, <<g1, g2>>) :
              h1 \in HandGeometries, h2 \in HandGeometries,
              g1 \in GestureLists, g2 \in GestureLists}

VisionInit ==
    /\ input \in VisionInputs
    /\ phase = "caller"
    /\ gestureRecognizer = FALSE
    /\ lastVideoTime = -1
    /\ video = [currentTime |-> 0, ready |-> FALSE, paused |-> FALSE]
    /\ particleState = NeutralState
    /\ visionState = [isLoaded |-> FALSE, gesture |-> "Initializing...",
                      handsVisible |-> 0]
    /\ shape = "Heart"
    /\ audio = [ctx |-> FALSE, isMuted |-> TRUE, params |-> InitialAudioParams]
    /\ uiMuted = TRUE
    /\ last = NoTick
    /\ detections = [t \in 0..MaxTime |-> 0]
    /\ SceneInit

\* VisionService.initialize() completes.
VsInitialize ==
    /\ ~gestureRecognizer
    /\ gestureRecognizer' = TRUE
    /\ UNCHANGED <<phase, lastVideoTime, video, particleState, visionState, shape,
                   audio, uiMuted, last, detections, sceneVars, input, generated, gemini, saturn, unmounted>>

\* The video element gets its first frame / the next frame.
VsVideoFrame ==
    /\ \/ /\ ~video.ready
          /\ video' = [video EXCEPT !.ready = TRUE]
       \/ /\ video.ready
          /\ video.currentTime < MaxTime
          /\ video' = [video EXCEPT !.currentTime = @ + 1]
    /\ UNCHANGED <<phase, gestureRecognizer, lastVideoTime, particleState,
                   visionState, shape, audio, uiMuted, last, detections,
                   sceneVars, input, generated, gemini, saturn, unmounted>>

\* processVideo(video) called by any caller; the recognizer returns the drawn
\* result or raises.
VsProcessVideo ==
    /\ \E outcome \in {input, Throws} :
       LET r == processVideo(gestureRecognizer, lastVideoTime, video, outcome)
       IN  /\ r.invoked \/ outcome = input
           /\ lastVideoTime' = r.lastVideoTime
           /\ detections' = IF r.invoked
                            THEN [detections EXCEPT ![video.currentTime] = @ + 1]
                            ELSE detections
           /\ last' = [called |-> TRUE, recognizer |-> gestureRecognizer,
                       time |-> video.currentTime, lvtBefore |-> lastVideoTime,
                       threw |-> r.invoked /\ outcome.throws,
                            afterError |-> last.called /\ last.result.gesture = "Error",
                       result |-> r.result, invoked |-> r.invoked,
                       propagated |-> FALSE, rescheduled |-> ~r.thrown,
                       hands |-> IF r.invoked THEN Len(outcome.landmarks) ELSE 0,
                       audioUpdates |-> 0, audioArg |-> NeutralState]
    /\ UNCHANGED <<phase, gestureRecognizer, video, particleState, visionState,
                   shape, audio, uiMuted, sceneVars, input, generated, gemini, saturn, unmounted>>

VisionNext == VsInitialize \/ VsVideoFrame \/ VsProcessVideo

SpecVision == VisionInit /\ [][VisionNext]_vars

\* ------------------------------ VisionService on a grid of hand geometries
\* Two hands whose wrists are (0,0) and every even grid point: wrist distances
\* from 0 to the frame diagonal.
DistanceInputs ==
    {Result(<<Hand(0, 0, 5), Hand(wx, wy, 5)>>, <<<<>>, <<>>>>) :
         wx \in {2 * i : i \in 0..10}, wy \in {2 * i : i \in 0..10}}

\* One hand anywhere in the frame, with any gesture list.
OneHandInputs ==
    {Result(<<Hand(wx, wy, my)>>, <<g>>) :
         wx \in {0, 10, 20}, wy \in {0, 10, 20}, my \in {0, 5, 20},
         g \in GestureLists \cup {<<"None">>}}

\* One or two hands of every size |wrist.y - middleFingerBase.y| on the grid.
SizeInputs ==
    {Result(<<Hand(10, 20, my)>>, <<<<>>>>) : my \in 0..20}
    \cup {Result(<<Hand(0, 20, m1), Hand(20, 20, m2)>>, <<<<>>, <<>>>>) :
              m1 \in 0..20, m2 \in 0..20}

MetricInputs == DistanceInputs \cup OneHandInputs \cup SizeInputs

MetricInit ==
    /\ input \in MetricInputs
    /\ phase = "caller"
    /\ gestureRecognizer = FALSE
    /\ lastVideoTime = -1
    /\ video = [currentTime |-> 0, ready |-> FALSE, paused |-> FALSE]
    /\ particleState = NeutralState
    /\ visionState = [isLoaded |-> FALSE, gesture |-> "Initializing...",
                      handsVisible |-> 0]
    /\ shape = "Heart"
    /\ audio = [ctx |-> FALSE, isMuted |-> TRUE, params |-> InitialAudioParams]
    /\ uiMuted = TRUE
    /\ last = NoTick
    /\ detections = [t \in 0..MaxTime |-> 0]
    /\ SceneInit

SpecMetrics == MetricInit /\ [][VisionNext]_vars

\* ------------------------------------------------------------ the App loop
Init == AppInit /\ SceneInit /\ input = Throws

Next ==
    \/ InitializeResolve
    \/ InitializeReject
    \/ GetUserMediaResolve
    \/ CameraError
    \/ PlayResolve
    \/ VideoAdvance
    \/ VideoReadyChange
    \/ VideoPauseChange
    \/ SoundToggle
    \/ SetShapeButton
    \/ PredictTick

Spec == Init /\ [][Next]_vars

\* --------------------------------------- AudioService under any caller
\* The states update is called with.
AudioStates ==
    {[expansion |-> e, tension |-> t, focus |-> f,
      rotation |-> [x |-> 0, y |-> 0]] :
         e \in {200, 1000, 2000, 3500}, t \in {0, 500, 1000},
         f \in {0, 500, 1000}}

AudioInitializeCall ==
    /\ audio' = AudioInitialize(audio)
    /\ UNCHANGED <<phase, gestureRecognizer, lastVideoTime, video, particleState,
                   visionState, shape, uiMuted, last, detections,
                   sceneVars, input, generated, gemini, saturn, unmounted>>

AudioResumeCall ==
    /\ audio' = AudioResume(audio)
    /\ UNCHANGED <<phase, gestureRecognizer, lastVideoTime, video, particleState,
                   visionState, shape, uiMuted, last, detections,
                   sceneVars, input, generated, gemini, saturn, unmounted>>

AudioToggleMuteCall ==
    /\ \E muted \in BOOLEAN : audio' = AudioToggleMute(audio, muted)
    /\ UNCHANGED <<phase, gestureRecognizer, lastVideoTime, video, particleState,
                   visionState, shape, uiMuted, last, detections,
                   sceneVars, input, generated, gemini, saturn, unmounted>>

AudioUpdateCall ==
    /\ \E st \in AudioStates : audio' = AudioUpdate(audio, st)
    /\ UNCHANGED <<phase, gestureRecognizer, lastVideoTime, video, particleState,
                   visionState, shape, uiMuted, last, detections,
                   sceneVars, input, generated, gemini, saturn, unmounted>>

AudioNext ==
    \/ AudioInitializeCall
    \/ AudioResumeCall
    \/ AudioToggleMuteCall
    \/ AudioUpdateCall
    \/ SoundToggle

AudioRunInit == AppInit /\ SceneInit /\ input = Throws

SpecAudio == AudioRunInit /\ [][AudioNext]_vars

\* ------------------------------------------ the App loop under unmounting
\* The App unmounts: React detaches videoRef, then the effect cleanup cancels
\* the animation frame requestRef holds (the one pending, if the loop runs).
Unmount ==
    /\ ~unmounted
    /\ unmounted' = TRUE
    /\ phase' = IF phase = "running" THEN "stopped" ELSE phase
    /\ UNCHANGED <<gestureRecognizer, lastVideoTime, video, particleState,
                   visionState, shape, audio, uiMuted, last, detections,
                   sceneVars, input, generated, gemini, saturn>>

LifecycleNext ==
    \/ InitializeResolve
    \/ InitializeReject
    \/ GetUserMediaResolve
    \/ CameraError
    \/ PlayResolve
    \/ VideoAdvance
    \/ PredictTick
    \/ Unmount

SpecLifecycle == Init /\ [][LifecycleNext]_vars

\* ================================================================ claims

SentinelLabels == {"Loading Model...", "Waiting for Video...", "None"}

AudioLive == audio.ctx /\ ~audio.isMuted

\* C1: a second processVideo call on the same video frame (detector ready,
\* video ready both times) returns 'None' with no hands, does not invoke the
\* recognizer, and the predict tick that receives it changes neither the
\* particle control state, nor the vision state, the active shape or the audio
\* parameters.
C1_StaleFrame ==
    [][(/\ PredictTick
        /\ last.called /\ last.recognizer
        /\ last.result.gesture # "Waiting for Video..."
        /\ gestureRecognizer /\ video.ready /\ ~video.paused
        /\ video.currentTime = last.time)
       => (/\ last'.called
           /\ last'.result.gesture = "None"
           /\ last'.result.handsDetected = 0
           /\ ~last'.invoked
           /\ detections' = detections
           /\ UNCHANGED <<particleState, visionState, shape, audio>>)]_vars

C1_Witness ==
    /\ last.called /\ last.recognizer
    /\ last.time = last.lvtBefore
    /\ last.result.gesture = "None"
    /\ ~last.invoked
    /\ AudioLive
    /\ particleState # NeutralState
    /\ visionState.handsVisible > 0

\* C2 as stated: whenever the detector is not ready or the frame has not
\* advanced, processVideo returns expansion 1, tension 0, focus 0, rotation
\* (0,0), a label among loading/waiting/none and no hands, and leaves
\* lastVideoTime unchanged.
C2_Original ==
    (last.called /\ (~last.recognizer \/ last.time = last.lvtBefore))
    => /\ last.result.state = [expansion |-> 1000, tension |-> 0, focus |-> 0,
                               rotation |-> [x |-> 0, y |-> 0]]
       /\ last.result.gesture \in SentinelLabels
       /\ last.result.handsDetected = 0
       /\ lastVideoTime = last.lvtBefore

\* C2 amended: as C2, with focus = 0.5 in the sentinel's control state.
C2_SentinelNeutral ==
    (last.called /\ (~last.recognizer \/ last.time = last.lvtBefore))
    => /\ last.result.state = [expansion |-> 1000, tension |-> 0, focus |-> 500,
                               rotation |-> [x |-> 0, y |-> 0]]
       /\ last.result.gesture \in SentinelLabels
       /\ last.result.handsDetected = 0
       /\ ~last.invoked
       /\ lastVideoTime = last.lvtBefore

C2_Witness ==
    /\ last.called /\ last.recognizer
    /\ last.time = last.lvtBefore
    /\ last.result.gesture = "None"
    /\ detections[last.time] = 1

C4_ErrorSentinel ==
    /\ phase # "crashed"
    /\ (last.called /\ last.threw)
       => /\ last.result.gesture = "Error"
          /\ last.result.handsDetected = 0
          /\ last.result.state = NeutralState
          /\ last.rescheduled

C4_Witness ==
    /\ last.called /\ last.threw
    /\ last.result.gesture = "Error"
    /\ phase = "running"

\* C5: an error is never retried and leaves no error state: no frame is handed
\* to the recognizer twice; the call after an 'Error' does not invoke the
\* recognizer on the same frame, and on a new ready frame it invokes it and
\* returns that frame's own outcome.
C5_NoRetry ==
    /\ \A t \in 0..MaxTime : detections[t] <= 1
    /\ (last.called /\ last.afterError)
       => /\ last.time = last.lvtBefore => ~last.invoked
          /\ (last.time # last.lvtBefore
              /\ last.result.gesture # "Waiting for Video...")
             => /\ last.invoked
                /\ last.result \in {Recognize(o) : o \in AppOutcomes}
                /\ (last.result.gesture = "Error") = last.threw

C5_Witness ==
    /\ last.called /\ last.afterError
    /\ last.invoked /\ ~last.threw
    /\ last.result.handsDetected > 0
    /\ last.propagated

\* C6: every control state processVideo returns has expansion in [0.1, 3.5],
\* tension and focus in [0, 1] and both rotation components in (-pi, pi].
C6_ObservationInBounds ==
    last.called
    => LET st == last.result.state
       IN  /\ st.expansion >= 100 /\ st.expansion <= 3500
           /\ st.tension >= 0 /\ st.tension <= 1000
           /\ st.focus >= 0 /\ st.focus <= 1000
           /\ st.rotation.x > 0 - PiMilli /\ st.rotation.x <= PiMilli
           /\ st.rotation.y > 0 - PiMilli /\ st.rotation.y <= PiMilli

\* Two hands in opposite corners: the power curve exceeds 3.5 and is clamped.
C6_Witness ==
    /\ last.called /\ last.invoked /\ ~last.threw
    /\ last.result.handsDetected = 2
    /\ last.result.state.expansion = 3500
    /\ last.result.state.tension = 1000

\* The fields of a control state, as a sequence.
Scalars(st) ==
    <<st.expansion, st.tension, st.focus, st.rotation.x, st.rotation.y>>

Between(a, v, b) == Min2(a, b) <= v /\ v <= Max2(a, b)

\* C7 as stated: after every frame the smoothed expansion, tension and focus
\* lie in [0.1, 3.5], [0, 1] and [0, 1].
C7_Original ==
    /\ smoothed.expansion >= 100 /\ smoothed.expansion <= 3500
    /\ smoothed.tension >= 0 /\ smoothed.tension <= 1000
    /\ smoothed.focus >= 0 /\ smoothed.focus <= 1000

\* C8: a frame whose raw value equals the smoothed value leaves it unchanged,
\* for every delta; and for 4*delta <= 1 the smoothed value ends between its
\* previous value and the raw value (it approaches, never passes).
C8_SmootherStep ==
    frame.n > 0
    => \A i \in 1..5 :
           LET prev == Scalars(frame.prev)[i]
               raw  == Scalars(frame.raw)[i]
               cur  == Scalars(smoothed)[i]
           IN  /\ raw = prev => cur = prev
               /\ 4 * frame.delta <= 1000
                  => /\ Between(prev, cur, raw)
                     /\ Abs(raw - cur) <= Abs(raw - prev)

\* A frame with 0 < 4*delta <= 1 on which focus steps toward a different raw
\* value while expansion is already at its raw value.
C8_Witness ==
    /\ frame.n > 0
    /\ frame.delta > 0 /\ 4 * frame.delta < 1000
    /\ frame.raw.focus # frame.prev.focus
    /\ smoothed.focus # frame.prev.focus
    /\ smoothed.focus # frame.raw.focus
    /\ frame.raw.expansion = frame.prev.expansion
    /\ smoothed.expansion = frame.prev.expansion

\* C9 as stated: for every delta >= 0 each smoothed scalar after the update
\* lies between its previous value and the raw target.
C9_Original ==
    frame.n > 0
    => \A i \in 1..5 :
           Between(Scalars(frame.prev)[i], Scalars(smoothed)[i],
                   Scalars(frame.raw)[i])

\* The labels appearing anywhere in the hands' gesture lists.
LabelsOf(gestures) ==
    UNION {{gestures[h][j] : j \in 1..Len(gestures[h])} : h \in 1..Len(gestures)}

Reverse(seq) == [k \in 1..Len(seq) |-> seq[Len(seq) + 1 - k]]

\* C10: with at least one hand, tension is 1.0 if any hand's gesture list
\* contains Closed_Fist, else 0.1 if any contains Open_Palm, else 0.4, and it is
\* the same with the hands in the other order.
C10_TensionPriority ==
    (last.called /\ last.invoked /\ ~last.threw /\ last.result.handsDetected > 0)
    => /\ last.result.state.tension =
              (IF "Closed_Fist" \in LabelsOf(input.gestures) THEN 1000
               ELSE IF "Open_Palm" \in LabelsOf(input.gestures) THEN 100
               ELSE 400)
       /\ last.result.state.tension =
              analyzeResult(Result(Reverse(input.landmarks),
                                   Reverse(input.gestures))).state.tension

\* The first hand reports Open_Palm only, the second Closed_Fist: fist wins.
C10_Witness ==
    /\ last.called /\ last.invoked /\ ~last.threw
    /\ last.result.handsDetected = 2
    /\ input.gestures[1] = <<"Open_Palm">>
    /\ input.gestures[2] = <<"Closed_Fist">>
    /\ last.result.state.tension = 1000

\* A freshly analysed frame: the recognizer was reached and returned a result.
Analysed == last.called /\ last.invoked /\ ~last.threw

\* Squared wrist distance of a two-hand result, in 1/400.
WristD2(result) ==
    LET a == result.landmarks[1][0]
        b == result.landmarks[2][0]
    IN  (a.x - b.x) * (a.x - b.x) + (a.y - b.y) * (a.y - b.y)

SizeOf(result) ==
    LET size(h) == Abs(result.landmarks[h][0].y - result.landmarks[h][9].y)
    IN  IF Len(result.landmarks) = 2 THEN size(1) + size(2) ELSE 2 * size(1)

\* C12: focus is 1.0 at hand size 0.25, 0 whenever |size - 0.25| >= 0.15, and
\* strictly smaller than at every size nearer to 0.25 in between.
C12_FocusSweetSpot ==
    (Analysed /\ last.result.handsDetected > 0)
    => LET s == SizeOf(input)
           f == last.result.state.focus
       IN  /\ s = 10 => f = 1000
           /\ Abs(s - 10) >= 6 => f = 0
           /\ Abs(s - 10) < 6
              => /\ f > 0
                 /\ \A s2 \in 0..40 :
                        Abs(s2 - 10) < Abs(s - 10) => Focus(s2) > f

\* Two hands of average size 0.40 (0.35 and 0.45): the upper edge, focus 0.
C12_Witness ==
    /\ Analysed
    /\ last.result.handsDetected = 2
    /\ SizeOf(input) = 16
    /\ last.result.state.focus = 0

\* C13: a predict tick that processes a fresh frame without hands yields the
\* label 'No Hands', handsDetected = 0 and focus = 0; the raw control state is
\* reset (expansion 1, tension 0), and the smoothed expansion, tension, focus
\* and rotation are the same after the tick as before it.
C13_ZeroHands ==
    [][(PredictTick /\ last'.called /\ last'.invoked /\ ~last'.threw
        /\ last'.hands = 0)
       => (/\ last'.result.gesture = "No Hands"
           /\ last'.result.handsDetected = 0
           /\ last'.result.state.focus = 0
           /\ last'.propagated
           /\ visionState'.gesture = "No Hands"
           /\ visionState'.handsVisible = 0
           /\ particleState'.expansion = 1000
           /\ particleState'.tension = 0
           /\ particleState'.focus = 0
           /\ smoothed' = smoothed)]_vars

\* After a no-hands tick the raw state is reset while the smoothed expansion
\* and tension still carry the values reached under the earlier two-hand frame.
C13_Witness ==
    /\ last.called /\ last.invoked /\ ~last.threw
    /\ last.hands = 0
    /\ last.result.gesture = "No Hands"
    /\ particleState.expansion = 1000 /\ particleState.tension = 0
    /\ frame.n > 0
    /\ smoothed.expansion > 1000
    /\ smoothed.tension > 0

\* C14: the base-position buffer is set to the targets on the first render of
\* Particles and is afterwards changed by frames only: a shape change and the
\* re-render that follows it replace the target array and leave the base
\* position as the previous frame left it.
C14_BaseBufferPersists ==
    [][/\ (~sceneProps.mounted /\ sceneProps'.mounted)
          => currentBasePositions' = targetPositions'.x
       /\ (sceneProps.mounted /\ frame'.n = frame.n)
          => currentBasePositions' = currentBasePositions
       /\ (sceneProps.mounted /\ sceneProps'.shape # sceneProps.shape)
          => /\ targetPositions'.serial = targetPositions.serial + 1
             /\ targetPositions'.x \in Coords(shape)
             /\ currentBasePositions' = currentBasePositions]_vars

\* Particles has been re-rendered with another shape after a frame: the targets
\* are the new shape's, the base position is still the old target.
C14_Witness ==
    /\ sceneProps.mounted
    /\ sceneProps.shape # "Heart"
    /\ targetPositions.serial = 2
    /\ frame.n >= 1 /\ frame.serial = 1
    /\ currentBasePositions = frame.target
    /\ currentBasePositions # targetPositions.x

\* The first frame that uses the targets of a newly selected shape, after an
\* earlier frame.
SwitchFrame == frame.n >= 2 /\ frame.serial # frame.prevSerial

\* C15 as stated: on the first frame after a shape change the written position
\* moves by at most 3*dt times its distance to the new target.
C15_Original ==
    [][(frame'.n = frame.n + 1 /\ frame.n >= 1 /\ frame'.serial # frame.serial)
       => Abs(geometry'.x - geometry.x) * 1000
              <= 3 * frame'.delta * Abs(frame'.target - geometry.x)]_vars

\* C15 amended: on every frame, the first after a shape change included, the
\* base position moves by at most 3*dt times its distance to the target (and
\* by that much up to rounding).
C15_MorphStepBound ==
    frame.n >= 1
    => LET move == Abs(currentBasePositions - frame.base)
           dist == Abs(frame.target - frame.base)
       IN  /\ move * 1000 <= 3 * frame.delta * dist
           /\ (move + 1) * 1000 > 3 * frame.delta * dist

C15_Witness ==
    /\ SwitchFrame
    /\ frame.delta > 0
    /\ frame.base # frame.target
    /\ currentBasePositions # frame.base

\* C16: the target array changes exactly at the first render of Particles and
\* at a re-render whose shape differs from the previous render's (one
\* generateParticles call each); frames and re-renders with the same shape
\* keep the cached array.
C16_TargetCaching ==
    [][/\ (targetPositions' # targetPositions)
          <=> \/ (~sceneProps.mounted /\ sceneProps'.mounted)
              \/ sceneProps'.shape # sceneProps.shape
       /\ targetPositions'.serial \in
              {targetPositions.serial, targetPositions.serial + 1}]_vars

\* A Thumb_Up tick re-selects Heart while Heart is active; Particles, mounted
\* before, is re-rendered with the new control state and the next frame still
\* uses the first target array.
C16_Witness ==
    /\ last.called /\ last.propagated
    /\ last.result.gesture = "Thumb_Up"
    /\ shape = "Heart"
    /\ sceneProps.particleState = particleState
    /\ frame.n = 2
    /\ frame.prev.expansion > 1000
    /\ frame.raw = particleState
    /\ frame.serial = 1 /\ frame.prevSerial = 1
    /\ targetPositions.serial = 1

\* C17: every generateParticles call, for the five shapes and for a value
\* outside the enum, for every count, returns an array of exactly 3*count
\* coordinates whose identity differs from every array returned earlier; for
\* the unknown shape every coordinate lies in [-2.5, 2.5].
C17_GenerateFresh ==
    generated.calls > 0
    => /\ Len(generated.data) = 3 * generated.count
       /\ generated.id \notin generated.earlier
       /\ generated.shape \notin ParticleShapes
          => \A k \in 1..Len(generated.data) :
                 generated.data[k] >= -2500 /\ generated.data[k] <= 2500

\* The unknown shape generated twice in a row, the second time for two
\* particles, with coordinates at both ends of the cube.
C17_Witness ==
    /\ generated.calls = 2
    /\ generated.shape = "Unknown"
    /\ generated.previous = "Unknown"
    /\ generated.earlier = {1}
    /\ generated.count = 2
    /\ Len(generated.data) = 6
    /\ generated.data[1] = -2500
    /\ generated.data[6] = 2499

\* C18: a predict tick that propagates an observation sets the shape to Flower
\* on Victory, Heart on Thumb_Up, Fireworks on Pointing_Up and Buddha on
\* ILoveYou, and leaves it on every other label; no tick turns the shape into
\* Saturn.
C18_ShapeSelectorPolicy ==
    [][(PredictTick /\ last'.called /\ last'.propagated)
       => LET g == last'.result.gesture
          IN  /\ g = "Victory" => shape' = "Flower"
              /\ g = "Thumb_Up" => shape' = "Heart"
              /\ g = "Pointing_Up" => shape' = "Fireworks"
              /\ g = "ILoveYou" => shape' = "Buddha"
              /\ g \notin {"Victory", "Thumb_Up", "Pointing_Up", "ILoveYou"}
                 => shape' = shape
              /\ shape' = "Saturn" => shape = "Saturn"]_vars

\* An Open_Palm observation was propagated and the shape is Saturn (chosen by
\* button): the palm neither selected nor replaced it.
C18_Witness ==
    /\ last.called /\ last.propagated
    /\ last.result.gesture = "Open_Palm"
    /\ visionState.gesture = "Open_Palm"
    /\ shape = "Saturn"

\* The audio parameters update() sets from a control state.
ParamsOf(st) ==
    [cutoff     |-> 50000 + st.expansion * 400,
     dronePitch |-> 55000 + st.tension * 10,
     centerFreq |-> 200000 + st.focus * 400,
     modFreq    |-> 100000 + st.tension * 50]

\* C19 as stated: on every tick the audio service receives exactly one update,
\* and the state it receives is the smoothed control state.
C19_Original ==
    last.called => (last.audioUpdates = 1 /\ last.audioArg = smoothed)

\* C19 amended: a tick that propagates an observation makes exactly one update
\* call, with the raw control state of that observation (the one written to
\* particleState); any other tick makes none; the unmuted service's parameters
\* are those of the raw state.
C19_RawPush ==
    /\ last.called
       => /\ last.audioUpdates = (IF last.propagated THEN 1 ELSE 0)
          /\ last.propagated
             => /\ last.audioArg = last.result.state
                /\ last.audioArg = particleState
    /\ AudioLive => audio.params = ParamsOf(particleState)

\* A propagated one-hand observation after a frame under the earlier two-hand
\* state: the smoothed expansion is above 1, the audio got the raw 1.
C19_Witness ==
    /\ last.called /\ last.propagated
    /\ last.hands = 1
    /\ AudioLive
    /\ frame.n >= 1
    /\ smoothed.expansion > 1000
    /\ particleState.expansion = 1000
    /\ audio.params.cutoff = 450000
    /\ audio.params # ParamsOf(smoothed)

\* C20 as stated: every setParticleState tool call the service receives makes
\* exactly one state update carrying the call's expansion and tension (1 and 0
\* when the argument is missing, non-numeric or zero) with focus 0.5 and
\* rotation (0, 0), and exactly one tool response for its call id; a call with
\* any other name makes neither.
C20_Original ==
    LET c == gemini.lastCall
        e == ToNumber(c.args.expansion)
        t == ToNumber(c.args.tension)
    IN  c.received
        => IF c.name = "setParticleState"
           THEN /\ c.updates = 1
                /\ c.update.expansion
                     = (IF e.nan \/ e.value = 0 THEN 1000 ELSE e.value)
                /\ c.update.tension
                     = (IF t.nan \/ t.value = 0 THEN 0 ELSE t.value)
                /\ c.update.focus = 500
                /\ c.update.rotation = [x |-> 0, y |-> 0]
                /\ particleState = c.update
                /\ c.responses = 1
           ELSE c.updates = 0 /\ c.responses = 0

\* The distance of the followed base coordinate to its target.
MorphDistance == Abs(targetPositions.x - currentBasePositions)

\* C21: with the target held fixed and morphSpeed in (0, 1] on every frame,
\* a frame multiplies the distance of the base coordinate to its target by
\* (1 - morphSpeed) (to within one unit of the fixed-point grid), so the
\* distance never grows and the coordinate never crosses its target; and the
\* base coordinate eventually stays within the grid's resolution of the target.
C21_MorphConvergence ==
    /\ [][LET d == targetPositions.x - currentBasePositions
              e == targetPositions'.x - currentBasePositions'
              w == MorphSpeed(frame'.delta)
          IN  /\ w > 0 /\ w <= 1000
              /\ 1000 * Abs(e) >= (1000 - w) * Abs(d)
              /\ 1000 * Abs(e) < (1000 - w) * Abs(d) + 1000
              /\ Abs(e) <= Abs(d)
              /\ d * e >= 0]_vars
    /\ <>[](MorphDistance <= MorphResolution)

\* The coordinate has travelled from the Heart to within the resolution of the
\* Fireworks target, and the last frame still moved it.
C21_Witness ==
    /\ shape = "Fireworks"
    /\ targetPositions.x = 3000
    /\ frame.n >= 3
    /\ frame.base # currentBasePositions
    /\ frame.delta = 333
    /\ frame.prev = InitialSmoothed
    /\ MorphDistance <= MorphResolution
    /\ MorphDistance > 0

\* C22 as stated: a Saturn particle is a planet point for 60% of the selector
\* variates and a ring point for 40%; ring points have in-plane radius in
\* [3, 5] and height within 0.1 before the tilt.
C22_Original ==
    /\ saturn.planet \cup saturn.ring = Selectors
       => /\ 10 * Cardinality(saturn.planet) = 6 * Cardinality(Selectors)
          /\ 10 * Cardinality(saturn.ring) = 4 * Cardinality(Selectors)
    /\ (saturn.drawn /\ saturn.isRing)
       => LET r2 == saturn.local.x * saturn.local.x
                    + saturn.local.z * saturn.local.z
          IN  /\ r2 >= 3000 * 3000 /\ r2 <= 5000 * 5000
              /\ Abs(saturn.local.y) <= 100

\* C22 amended: a Saturn particle is a ring point for 60% of the selector
\* variates (those above 0.4) and a planet point for 40%; ring points have
\* in-plane radius in [3, 5] and height within 0.1 before the tilt.
C22_SaturnSplit ==
    /\ saturn.drawn => (saturn.isRing <=> saturn.selector > 400)
    /\ saturn.planet \cap saturn.ring = {}
    /\ saturn.planet \cup saturn.ring = Selectors
       => /\ 10 * Cardinality(saturn.ring) = 6 * Cardinality(Selectors)
          /\ 10 * Cardinality(saturn.planet) = 4 * Cardinality(Selectors)
    /\ (saturn.drawn /\ saturn.isRing)
       => LET r2 == saturn.local.x * saturn.local.x
                    + saturn.local.z * saturn.local.z
          IN  /\ r2 >= 3000 * 3000 /\ r2 <= 5000 * 5000
              /\ Abs(saturn.local.y) <= 100

\* Every selector cell has been drawn, and the last particle is a ring point
\* near the outer edge at the top of the ring's thickness, tilted.
C22_Witness ==
    /\ saturn.planet \cup saturn.ring = Selectors
    /\ saturn.isRing
    /\ saturn.local.z = 4998
    /\ saturn.local.y = 99
    /\ saturn.position.y < -2000

\* C23: the jitter a frame adds to a coordinate is at most half of
\* smoothedTension * 0.15 in magnitude, and zero when smoothedTension * 0.15
\* is at most 0.01 (tension in 1/1000, jitter offset in 1/1000).
C23_JitterBounds ==
    frame.n > 0
    => /\ 2 * 1000 * Abs(frame.jitter) <= 150 * Abs(smoothed.tension)
       /\ 150 * smoothed.tension <= 10000 => frame.jitter = 0

\* A frame under full tension whose random draw was 0: the offset is the whole
\* half range, -0.075.
C23_Witness ==
    /\ frame.n > 0
    /\ smoothed.tension = 1000
    /\ frame.rnd = 0
    /\ frame.jitter = -75

\* Rotation inputs of a second run: none, and a quarter turn each way.
OtherRotations ==
    {[x |-> 0, y |-> 0], [x |-> 1571, y |-> -1571], [x |-> -500, y |-> 1047]}

\* C24: a frame writes the smoothed rotation to the points object's rotation,
\* and the base coordinate and the written coordinate are the ones the same
\* frame computes from any other raw and smoothed rotation (the other inputs
\* being the same, tension jitter inactive).
C24_RotationOnContainer ==
    frame.n > 0
    => /\ geometry.rotation = smoothed.rotation
       /\ geometry.rotation.x
            = Lerp(frame.prev.rotation.x, frame.raw.rotation.x,
                   4 * frame.delta)
       /\ geometry.rotation.y
            = Lerp(frame.prev.rotation.y, frame.raw.rotation.y,
                   4 * frame.delta)
       /\ 150 * smoothed.tension <= 10000
          => \A r1 \in OtherRotations, r2 \in OtherRotations :
                 LET sm2   == SmoothStep([frame.prev EXCEPT !.rotation = r1],
                                         [frame.raw EXCEPT !.rotation = r2],
                                         frame.delta)
                     base2 == MorphStep(frame.base, frame.target, frame.delta)
                 IN  /\ base2 = currentBasePositions
                     /\ WrittenPosition(base2, sm2, frame.time, frame.rnd)
                          = geometry.x

\* A frame that turned the points object about both axes and wrote a nonzero
\* coordinate, without jitter.
C24_Witness ==
    /\ frame.n > 0
    /\ frame.raw.rotation.x # 0
    /\ frame.raw.rotation.y # 0
    /\ geometry.rotation.x # 0
    /\ geometry.rotation.y # 0
    /\ geometry.rotation # frame.raw.rotation
    /\ 150 * smoothed.tension <= 10000
    /\ geometry.x # 0
    /\ frame.delta > 0

\* C25 as stated: every observation computed from a freshly processed frame
\* with at least one hand is propagated by predict into the particle control
\* state, whatever its gesture classification.
C25_Original ==
    (last.called /\ last.invoked /\ ~last.threw /\ last.hands > 0)
    => /\ last.propagated
       /\ last.audioUpdates = 1
       /\ particleState = last.result.state

\* C26: the predict loop is first scheduled by the step in which play()
\* resolves, with the recognizer created; so a predict tick never calls
\* processVideo without a recognizer and never receives 'Loading Model...'.
C26_StartupOrdering ==
    /\ [][(phase # "running" /\ phase' = "running")
          => (phase = "play" /\ gestureRecognizer)]_vars
    /\ [](phase \in {"play", "running"} => gestureRecognizer)
    /\ [](last.called
          => (last.recognizer /\ last.result.gesture # "Loading Model..."))

\* The first tick of a started loop has called processVideo with the
\* recognizer in place and reached it.
C26_Witness ==
    /\ ~unmounted
    /\ phase = "running"
    /\ last.called /\ last.recognizer /\ last.invoked
    /\ last.lvtBefore = -1
    /\ visionState.isLoaded

\* C27 as stated: once the effect cleanup has run, no predict tick is
\* scheduled (phase "running" is the loop with an animation frame pending), so
\* none is executed.
C27_Original == unmounted => phase # "running"

\* C28: the service starts muted and without a graph; update changes the
\* audio parameters only when the service is initialized and unmuted;
\* initialize on an initialized service changes nothing (the graph is built at
\* most once); and a step of the App's toggle handler leaves the service
\* unmuted only if it is initialized.
C28_AudioGating ==
    /\ audio.isMuted /\ ~audio.ctx
    /\ [][audio'.params # audio.params
          => (AudioUpdateCall /\ audio.ctx /\ ~audio.isMuted)]_vars
    /\ [][audio.ctx
          => (audio'.ctx /\ (AudioInitializeCall => audio' = audio))]_vars
    /\ [][SoundToggle => (~audio'.isMuted => audio'.ctx)]_vars

\* The service is initialized and was unmuted by a direct call (the App's
\* switch still shows muted), and an update has gone through.
C28_Witness ==
    /\ audio.ctx /\ ~audio.isMuted
    /\ uiMuted
    /\ audio.params.cutoff = 50000 + 3500 * 400
    /\ audio.params.modFreq = 100000 + 1000 * 50

\* C29: a frame whose smoothed tension keeps the jitter off (tension * 0.15 at
\* most 0.01) has one outcome for its inputs: the smoothed state, the base
\* coordinate and the written coordinate are those computed from the base
\* buffer, smoothed state, target, raw state, delta and clock time before the
\* frame, whatever Math.random() would return.
C29_DeterministicWithoutJitter ==
    [][(frame'.n = frame.n + 1 /\ 150 * smoothed'.tension <= 10000)
       => LET delta == frame'.delta
              sm    == SmoothStep(smoothed, sceneProps.particleState, delta)
              base  == MorphStep(currentBasePositions, targetPositions.x, delta)
          IN  /\ smoothed' = sm
              /\ currentBasePositions' = base
              /\ \A r \in Randoms :
                     geometry'.x
                       = WrittenPosition(base, sm, frame.time + delta, r)]_vars

\* A frame under a small nonzero smoothed tension (jitter off) that wrote a
\* scattered, nonzero coordinate.
C29_Witness ==
    /\ frame.n > 0
    /\ smoothed.tension > 0
    /\ 150 * smoothed.tension <= 10000
    /\ smoothed.focus < 995
    /\ frame.delta > 0
    /\ geometry.x # 0
    /\ geometry.x # currentBasePositions

\* C30 as stated: a video frame is sent only while a session is established,
\* never before the connect promise has resolved and never after disconnect;
\* and at most one frame-sending interval is active.
C30_Original ==
    /\ gemini.lastFrame.sent
       => /\ gemini.lastFrame.session
          /\ ~gemini.lastFrame.afterDisconnect
    /\ Cardinality(gemini.timers) <= 1

====
